---- MODULE Spec2Model ----
(***************************************************************************)
(* DPLL satisfiability solver (dpll.py): formula simplification under an   *)
(* assignment, pure literal elimination, unit propagation and the          *)
(* recursive branch-and-backtrack search, modelled with an explicit call   *)
(* stack, plus the driver that completes and sorts the solution.           *)
(*                                                                         *)
(* A formula is a sequence of clauses, a clause a sequence of nonzero      *)
(* integers. Python values that are not lists of lists are modelled by     *)
(* reserved sequences built from the literal 0, which no clause contains.  *)
(***************************************************************************)
EXTENDS Integers, Sequences, FiniteSets

VARIABLES
  cnf,        \* the parsed input formula (dpll), or the formula argument of a single call
  n_props,    \* the variable count of the "p" line
  pc,         \* position of dpll: "parse", "search", "done", "raised"; "call" for a single call
  stack,      \* the activation records of _dpll, innermost last
  ret,        \* the value returned by the _dpll call that returned last
  output,     \* the value dpll returns
  error,      \* the uncaught exception, if one was raised
  arg,        \* the literal list argument of a single call (its first element where one literal is taken)
  called,     \* the function applied by a single call
  result      \* the values returned by the single calls, in call order

vars == <<cnf, n_props, pc, stack, ret, output, error, arg, called, result>>

\* ------------------------------------------------------------------ bounds
NumVars == 2          \* variables 1..NumVars
MaxTokens == 6        \* integer tokens on the clause lines of an input file
MaxFullClauses == 4   \* clauses of a full-width input formula
MaxLits == 2          \* length of the literal list given to make_literals_true

\* ------------------------------------------------- reserved Python values
\* the int -1 that _make_literal_true returns in place of a formula
Conflict == << <<0>> >>
\* the exception raised by iterating over the int -1
TypeError == << <<0, 0>> >>
\* the exception raised by clause[0] on an empty clause
IndexError == 0
\* Python's None, where a clause or a solution list is expected
None == <<0>>

\* ------------------------------------------------------------ input sets
Lits == {l \in (0 - NumVars)..NumVars : l # 0}

\* the literals of the variables 1..n
LitsOf(n) == {l \in (0 - n)..n : l # 0}

SeqsUpTo(S, n) == UNION {[1..k -> S] : k \in 0..n}

\* the integer tokens of the clause lines of a formula: its literals and one
\* closing 0 per clause
RECURSIVE Tokens(_)
Tokens(f) == IF f = <<>> THEN 0 ELSE Len(Head(f)) + 1 + Tokens(Tail(f))

\* clauses that mention every variable of 1..n once, in variable order
FullClauses(n) == {c \in [1..n -> LitsOf(n)] : \A i \in 1..n : c[i] \in {i, 0 - i}}

\* the clauses the next clause line may hold: any literals, repeats allowed,
\* within the token bound, or one more full-width clause
NextClauses(f, n) ==
  SeqsUpTo(LitsOf(n), MaxTokens - Tokens(f) - 1)
    \cup (IF Len(f) < MaxFullClauses /\ \A i \in DOMAIN f : f[i] \in FullClauses(n)
          THEN FullClauses(n) ELSE {})

\* the formulas of at most n integer tokens over the variables 1..NumVars
RECURSIVE FormulasOfTokens(_)
FormulasOfTokens(n) ==
  {<<>>} \cup UNION {{<<c>> \o f : c \in [1..k -> Lits], f \in FormulasOfTokens(n - k - 1)} :
                     k \in 0..(n - 1)}

\* the formula arguments of the single calls
CallFormulas == FormulasOfTokens(MaxTokens - 1)

Abs(x) == IF x < 0 THEN 0 - x ELSE x

\* the literal lists given to make_literals_true: literals of distinct variables
LitLists ==
  {ls \in SeqsUpTo(Lits, MaxLits) :
     \A i, j \in DOMAIN ls : i # j => Abs(ls[i]) # Abs(ls[j])}

\* ------------------------------------------------------- list primitives
\* x in s
In(x, s) == \E i \in DOMAIN s : s[i] = x

\* s.remove(x): drops the first occurrence of x only
Remove(s, x) ==
  LET i == CHOOSE k \in DOMAIN s : s[k] = x /\ \A j \in 1..(k - 1) : s[j] # x
  IN  SubSeq(s, 1, i - 1) \o SubSeq(s, i + 1, Len(s))

\* --------------------------------------------------------- count_literals
RECURSIVE Flatten(_)
Flatten(f) == IF f = <<>> THEN <<>> ELSE Head(f) \o Flatten(Tail(f))

\* a variant that records a literal again each time it is met
RECURSIVE first_seen_keeps_repeats(_, _)
first_seen_keeps_repeats(s, acc) ==
  IF s = <<>> THEN acc
  ELSE first_seen_keeps_repeats(Tail(s), Append(acc, Head(s)))

RECURSIVE FirstSeen(_, _)
FirstSeen(s, acc) ==
  IF s = <<>> THEN acc
  ELSE FirstSeen(Tail(s), IF In(Head(s), acc) THEN acc ELSE Append(acc, Head(s)))

\* the dict of counts: its keys in insertion order and the count of each key
count_literals(formula) ==
  LET all == Flatten(formula)
      keys == FirstSeen(all, <<>>)
  IN  [keys |-> keys,
       counts |-> [l \in {keys[i] : i \in DOMAIN keys} |->
                     Cardinality({i \in DOMAIN all : all[i] = l})]]

\* ----------------------------------------------------- _make_literal_true
\* a variant that also drops the clauses containing the complement
RECURSIVE make_literal_true_drops_complement(_, _, _)
make_literal_true_drops_complement(formula, literal, new_formula) ==
  IF formula = <<>> THEN new_formula
  ELSE LET clause == Head(formula) IN
       IF In(literal, clause) \/ In(-1 * literal, clause)
       THEN make_literal_true_drops_complement(Tail(formula), literal, new_formula)
       ELSE make_literal_true_drops_complement(Tail(formula), literal,
                                               Append(new_formula, clause))

RECURSIVE make_literal_true_loop(_, _, _)
make_literal_true_loop(formula, literal, new_formula) ==
  IF formula = <<>> THEN new_formula
  ELSE LET clause == Head(formula) IN
       IF In(literal, clause)
       THEN make_literal_true_loop(Tail(formula), literal, new_formula)
       ELSE IF In(-1 * literal, clause)
            THEN LET new_clause == Remove(clause, -1 * literal) IN
                 IF Len(new_clause) = 0 THEN Conflict
                 ELSE make_literal_true_loop(Tail(formula), literal,
                                             Append(new_formula, new_clause))
            ELSE make_literal_true_loop(Tail(formula), literal,
                                        Append(new_formula, clause))

\* iterating over the int -1 raises TypeError; a raised exception propagates
_make_literal_true(formula, literal) ==
  IF formula \in {Conflict, TypeError} THEN TypeError
  ELSE make_literal_true_loop(formula, literal, <<>>)

\* ------------------------------------------------------ make_literals_true
\* literals is not a list: one call of _make_literal_true
make_literal_true_single(formula, literal) == _make_literal_true(formula, literal)

\* literals is a list: the loop over it, which tests nothing between calls
RECURSIVE make_literals_true(_, _)
make_literals_true(formula, literals) ==
  IF literals = <<>> THEN formula
  ELSE make_literals_true(_make_literal_true(formula, Head(literals)), Tail(literals))

\* -------------------------------------------------------------------- ple
\* a variant that takes every counted literal for pure
pure_literals_of_every_key(literal_counts) == literal_counts.keys

pure_literals_of(literal_counts) ==
  SelectSeq(literal_counts.keys, LAMBDA literal : ~In(-1 * literal, literal_counts.keys))

\* returns <<formula, pure_literals>>
ple(formula) ==
  IF formula \in {Conflict, TypeError} THEN <<TypeError, <<>>>>
  ELSE LET pure_literals == pure_literals_of(count_literals(formula))
       IN  <<make_literals_true(formula, pure_literals), pure_literals>>

\* --------------------------------------------------------------------- up
\* a variant that returns the last clause of one literal
RECURSIVE get_last_unit_clause(_)
get_last_unit_clause(formula) ==
  IF formula = <<>> THEN None
  ELSE IF Len(formula[Len(formula)]) = 1 THEN formula[Len(formula)]
       ELSE get_last_unit_clause(SubSeq(formula, 1, Len(formula) - 1))

RECURSIVE get_unit_clause(_)
get_unit_clause(formula) ==
  IF formula = <<>> THEN None
  ELSE IF Len(Head(formula)) = 1 THEN Head(formula)
       ELSE get_unit_clause(Tail(formula))

\* a variant that returns the recorded literals with the Conflict
RECURSIVE up_loop_reports_on_conflict(_, _, _)
up_loop_reports_on_conflict(formula, valuation, unit_clause) ==
  IF unit_clause = None
  THEN [formula |-> formula, assigned |-> valuation, valuation |-> valuation]
  ELSE LET unique_literal == unit_clause[1]
           f == make_literal_true_single(formula, unique_literal)
           v == Append(valuation, unique_literal)
       IN  IF f = Conflict
           THEN [formula |-> Conflict, assigned |-> v, valuation |-> v]
           ELSE IF f = <<>>
                THEN [formula |-> f, assigned |-> v, valuation |-> v]
                ELSE up_loop_reports_on_conflict(f, v, get_unit_clause(f))

\* the while loop of up; the result keeps, next to the two returned values,
\* the local list valuation as it stands at the return statement
RECURSIVE up_loop(_, _, _)
up_loop(formula, valuation, unit_clause) ==
  IF unit_clause = None
  THEN [formula |-> formula, assigned |-> valuation, valuation |-> valuation]
  ELSE LET unique_literal == unit_clause[1]
           f == make_literal_true_single(formula, unique_literal)
           v == Append(valuation, unique_literal)
       IN  IF f = Conflict
           THEN [formula |-> Conflict, assigned |-> <<>>, valuation |-> v]
           ELSE IF f = <<>>
                THEN [formula |-> f, assigned |-> v, valuation |-> v]
                ELSE up_loop(f, v, get_unit_clause(f))

up_run(formula) ==
  IF formula \in {Conflict, TypeError}
  THEN [formula |-> TypeError, assigned |-> <<>>, valuation |-> <<>>]
  ELSE up_loop(formula, <<>>, get_unit_clause(formula))

\* a variant that propagates no unit clause
up_skipped(formula) == <<formula, <<>>>>

\* returns <<formula, valuation>>
up(formula) == <<up_run(formula).formula, up_run(formula).assigned>>

\* ---------------------------------------------------- select_next_literal
\* called on a formula with at least one clause
select_next_literal(formula) ==
  IF formula[1] = <<>> THEN IndexError ELSE formula[1][1]

\* ------------------------------------------------------------------- dpll
\* [i for i in range(1, n_props+1) if i not in solution and -i not in solution]
RECURSIVE unassigned_from(_, _, _)
unassigned_from(i, n, solution) ==
  IF i > n THEN <<>>
  ELSE (IF ~In(i, solution) /\ ~In(0 - i, solution) THEN <<i>> ELSE <<>>)
       \o unassigned_from(i + 1, n, solution)

\* list.sort(key=abs): stable, by insertion
RECURSIVE insert_by_abs(_, _)
insert_by_abs(sorted, x) ==
  IF sorted = <<>> THEN <<x>>
  ELSE IF Abs(sorted[Len(sorted)]) <= Abs(x) THEN Append(sorted, x)
       ELSE Append(insert_by_abs(SubSeq(sorted, 1, Len(sorted) - 1), x), sorted[Len(sorted)])

RECURSIVE sort_by_abs(_)
sort_by_abs(s) ==
  IF s = <<>> THEN <<>>
  ELSE insert_by_abs(sort_by_abs(SubSeq(s, 1, Len(s) - 1)), s[Len(s)])

\* the value dpll returns for the solution that _dpll returned
dpll_return(solution, n) ==
  IF solution = <<>> THEN None
  ELSE sort_by_abs(unassigned_from(1, n, solution) \o solution)

\* ------------------------------------------------------------------ _dpll
Top == stack[Len(stack)]

Frame(f, valuation) ==
  [pc |-> "ple", formula |-> f, valuation |-> valuation,
   pure_valuation |-> <<>>, literal |-> 0, sign |-> 1]

SetTop(frame) == [stack EXCEPT ![Len(stack)] = frame]

Pop == SubSeq(stack, 1, Len(stack) - 1)

Searching == pc = "search" /\ stack # <<>>

unit_vars == <<arg, called, result>>

\* parse_dimacs lines 12-14: one more clause line is read
parse_clause ==
  /\ pc = "parse"
  /\ \E clause \in NextClauses(cnf, n_props) : cnf' = Append(cnf, clause)
  /\ UNCHANGED <<n_props, pc, stack, ret, output, error, unit_vars>>

\* dpll lines 120-121: the file is read, the formula goes to _dpll with an empty valuation
dpll_call ==
  /\ pc = "parse"
  /\ stack' = <<Frame(cnf, <<>>)>>
  /\ pc' = "search"
  /\ UNCHANGED <<cnf, n_props, ret, output, error, unit_vars>>

\* _dpll line 105
dpll_ple ==
  /\ Searching /\ Top.pc = "ple"
  /\ LET r == ple(Top.formula) IN
     IF r[1] = TypeError
     THEN /\ pc' = "raised" /\ error' = "TypeError" /\ UNCHANGED stack
     ELSE /\ stack' = SetTop([Top EXCEPT !.formula = r[1], !.pure_valuation = r[2], !.pc = "up"])
          /\ UNCHANGED <<pc, error>>
  /\ UNCHANGED <<cnf, n_props, ret, output, unit_vars>>

\* _dpll lines 106-107
dpll_up ==
  /\ Searching /\ Top.pc = "up"
  /\ LET r == up(Top.formula) IN
     stack' = SetTop([Top EXCEPT !.formula = r[1],
                                 !.valuation = Top.valuation \o Top.pure_valuation \o r[2],
                                 !.pc = "test"])
  /\ UNCHANGED <<cnf, n_props, pc, ret, output, error, unit_vars>>

\* _dpll lines 108-109
dpll_conflict ==
  /\ Searching /\ Top.pc = "test"
  /\ Top.formula = Conflict
  /\ stack' = Pop
  /\ ret' = <<>>
  /\ UNCHANGED <<cnf, n_props, pc, output, error, unit_vars>>

\* _dpll lines 110-111
dpll_success ==
  /\ Searching /\ Top.pc = "test"
  /\ Top.formula # Conflict /\ Top.formula = <<>>
  /\ stack' = Pop
  /\ ret' = Top.valuation
  /\ UNCHANGED <<cnf, n_props, pc, output, error, unit_vars>>

\* _dpll line 112
dpll_select ==
  /\ Searching /\ Top.pc = "test"
  /\ Top.formula # Conflict /\ Top.formula # <<>>
  /\ LET literal == select_next_literal(Top.formula) IN
     IF literal = IndexError
     THEN /\ pc' = "raised" /\ error' = "IndexError" /\ UNCHANGED stack
     ELSE /\ stack' = SetTop([Top EXCEPT !.literal = literal, !.sign = 1, !.pc = "loop"])
          /\ UNCHANGED <<pc, error>>
  /\ UNCHANGED <<cnf, n_props, ret, output, unit_vars>>

\* a variant that tries the complement of the selected literal first
dpll_recurse_complement_first ==
  /\ Searching /\ Top.pc = "loop"
  /\ LET l == (0 - Top.sign) * Top.literal IN
     stack' = Append(SetTop([Top EXCEPT !.pc = "wait"]),
                     Frame(make_literal_true_single(Top.formula, l),
                           Top.valuation \o <<l>>))
  /\ UNCHANGED <<cnf, n_props, pc, ret, output, error, unit_vars>>

\* _dpll line 114: the recursive call for the current sign
dpll_recurse ==
  /\ Searching /\ Top.pc = "loop"
  /\ LET l == Top.sign * Top.literal IN
     stack' = Append(SetTop([Top EXCEPT !.pc = "wait"]),
                     Frame(make_literal_true_single(Top.formula, l),
                           Top.valuation \o <<l>>))
  /\ UNCHANGED <<cnf, n_props, pc, ret, output, error, unit_vars>>

\* _dpll lines 115-116: the call returned a non-empty list
dpll_solution ==
  /\ Searching /\ Top.pc = "wait"
  /\ ret # <<>>
  /\ stack' = Pop
  /\ UNCHANGED <<cnf, n_props, pc, ret, output, error, unit_vars>>

\* a variant in which the frame keeps the formula of the failed first call
dpll_next_sign_keeps_formula ==
  /\ Searching /\ Top.pc = "wait"
  /\ ret = <<>> /\ Top.sign = 1
  /\ LET f == make_literal_true_single(Top.formula, Top.literal) IN
     stack' = SetTop([Top EXCEPT !.sign = -1, !.pc = "loop",
                                 !.formula = IF f = Conflict THEN Top.formula ELSE f])
  /\ UNCHANGED <<cnf, n_props, pc, ret, output, error, unit_vars>>

\* a variant in which the frame keeps the literal of the failed first call
dpll_next_sign_keeps_literal ==
  /\ Searching /\ Top.pc = "wait"
  /\ ret = <<>> /\ Top.sign = 1
  /\ stack' = SetTop([Top EXCEPT !.sign = -1, !.pc = "loop",
                                 !.valuation = Top.valuation \o <<Top.literal>>])
  /\ UNCHANGED <<cnf, n_props, pc, ret, output, error, unit_vars>>

\* _dpll line 113: the call returned an empty list, the second sign is next
dpll_next_sign ==
  /\ Searching /\ Top.pc = "wait"
  /\ ret = <<>> /\ Top.sign = 1
  /\ stack' = SetTop([Top EXCEPT !.sign = -1, !.pc = "loop"])
  /\ UNCHANGED <<cnf, n_props, pc, ret, output, error, unit_vars>>

\* _dpll line 117: both calls returned an empty list
dpll_fail ==
  /\ Searching /\ Top.pc = "wait"
  /\ ret = <<>> /\ Top.sign = -1
  /\ stack' = Pop
  /\ ret' = <<>>
  /\ UNCHANGED <<cnf, n_props, pc, output, error, unit_vars>>

\* dpll lines 123-127
dpll_finish ==
  /\ pc = "search" /\ stack = <<>>
  /\ output' = dpll_return(ret, n_props)
  /\ pc' = "done"
  /\ UNCHANGED <<cnf, n_props, stack, ret, error, unit_vars>>

\* parse_dimacs lines 5-11: no clause yet, the "p" line gives n_props; the
\* clauses that follow are over the variables 1..n_props
Init ==
  /\ cnf = <<>>
  /\ n_props \in 0..NumVars
  /\ pc = "parse"
  /\ stack = <<>>
  /\ ret = <<>>
  /\ output = <<>>
  /\ error = "none"
  /\ arg = <<>>
  /\ called = "dpll"
  /\ result = <<>>

Next ==
  \/ parse_clause
  \/ dpll_call
  \/ dpll_ple
  \/ dpll_up
  \/ dpll_conflict
  \/ dpll_success
  \/ dpll_select
  \/ dpll_recurse
  \/ dpll_solution
  \/ dpll_next_sign
  \/ dpll_fail
  \/ dpll_finish

Spec == Init /\ [][Next]_vars

\* ------------------------------------------- the functions called one by one
search_vars == <<n_props, pc, stack, ret, output, error>>

call_make_literal_true ==
  /\ called = "none"
  /\ \E literal \in Lits :
       /\ arg' = <<literal>>
       /\ result' = <<_make_literal_true(cnf, literal)>>
  /\ called' = "_make_literal_true"
  /\ UNCHANGED <<cnf, search_vars>>

\* the same literal applied to what the first call returned
call_make_literal_true_again ==
  /\ called = "_make_literal_true"
  /\ result' = Append(result, _make_literal_true(result[1], arg[1]))
  /\ called' = "_make_literal_true again"
  /\ UNCHANGED <<cnf, arg, search_vars>>

call_make_literals_true ==
  /\ called = "none"
  /\ \E literals \in LitLists :
       /\ arg' = literals
       /\ result' = <<make_literals_true(cnf, literals)>>
  /\ called' = "make_literals_true"
  /\ UNCHANGED <<cnf, search_vars>>

call_ple ==
  /\ called = "none"
  /\ result' = <<ple(cnf)>>
  /\ called' = "ple"
  /\ UNCHANGED <<cnf, arg, search_vars>>

call_up ==
  /\ called = "none"
  /\ result' = <<up_run(cnf)>>
  /\ called' = "up"
  /\ UNCHANGED <<cnf, arg, search_vars>>

InitCall ==
  /\ cnf \in CallFormulas
  /\ arg = <<>>
  /\ called = "none"
  /\ result = <<>>
  /\ n_props = NumVars
  /\ pc = "call"
  /\ stack = <<>>
  /\ ret = <<>>
  /\ output = <<>>
  /\ error = "none"

NextCall ==
  \/ call_make_literal_true
  \/ call_make_literal_true_again
  \/ call_make_literals_true
  \/ call_ple
  \/ call_up

SpecCall == InitCall /\ [][NextCall]_vars

\* ------------------------------------------------------------- properties
LitTrue(a, l) == IF l > 0 THEN a[l] ELSE ~a[0 - l]

\* some truth assignment of the variables 1..n makes a literal of every clause true
Satisfiable(f, n) ==
  \E a \in [1..n -> BOOLEAN] :
    \A i \in DOMAIN f : \E j \in DOMAIN f[i] : LitTrue(a, f[i][j])

HasEmptyClause(f) == \E i \in DOMAIN f : f[i] = <<>>

Returned == pc = "done" /\ output # None

\* C1: whenever dpll returns an assignment, every clause of the input formula
\* contains a literal that is a member of the returned assignment.
Soundness ==
  Returned => \A i \in DOMAIN cnf : \E j \in DOMAIN cnf[i] : In(cnf[i][j], output)

\* dpll returned an assignment for a formula of three or more clauses that needed a branch
SoundnessWitness ==
  /\ Returned
  /\ Len(cnf) >= 3
  /\ \A i \in DOMAIN cnf : \E j \in DOMAIN cnf[i] : In(cnf[i][j], output)

\* C2: dpll returns None exactly when no truth assignment of the variables
\* 1..n_props satisfies all clauses of the input formula.
VerdictAgreement ==
  pc = "done" => ((output = None) <=> ~Satisfiable(cnf, n_props))

\* C3: a returned assignment has exactly n_props literals, the literal at
\* position v being +v or -v.
Totality ==
  Returned =>
    /\ Len(output) = n_props
    /\ \A v \in 1..n_props : Abs(output[v]) = v

\* C4: for the formula without clauses dpll returns every variable of
\* 1..n_props as true (the empty assignment when n_props = 0), not None.
EmptyFormulaIsSat ==
  (pc = "done" /\ cnf = <<>>) => (output # None /\ output = [v \in 1..n_props |-> v])

\* C5: for an input formula with an empty clause the search fails and dpll
\* returns None, and no branching literal is ever selected.
EmptyClauseIsUnsat ==
  HasEmptyClause(cnf) =>
    /\ pc # "raised"
    /\ pc = "done" => output = None
    /\ \A i \in DOMAIN stack : stack[i].pc \notin {"loop", "wait"}

\* C6: making the same literal true in the formula that _make_literal_true
\* returned gives that formula again.
AssignIdempotent ==
  (called = "_make_literal_true again" /\ result[1] # Conflict) => result[2] = result[1]

\* C7: on a formula without empty clause ple returns a formula, never the
\* Conflict value, and a satisfiable formula stays satisfiable.
PleNeverConflict ==
  (called = "ple" /\ ~HasEmptyClause(cnf)) =>
    /\ result[1][1] \notin {Conflict, TypeError}
    /\ Satisfiable(cnf, NumVars) => Satisfiable(result[1][1], NumVars)

\* ple made a pure literal true in a satisfiable formula and left clauses over
PleNeverConflictWitness ==
  /\ called = "ple" /\ ~HasEmptyClause(cnf)
  /\ Satisfiable(cnf, NumVars)
  /\ result[1][2] # <<>>
  /\ result[1][1] \notin {Conflict, TypeError, <<>>}

RemoveAll(clause, x) == SelectSeq(clause, LAMBDA y : y # x)

\* the result of assign as the two rules state it
AssignByRule(f, l) ==
  LET remaining == SelectSeq(f, LAMBDA clause : ~In(l, clause))
  IN  IF \E i \in DOMAIN remaining :
           In(0 - l, remaining[i]) /\ RemoveAll(remaining[i], 0 - l) = <<>>
      THEN Conflict
      ELSE [i \in DOMAIN remaining |-> RemoveAll(remaining[i], 0 - l)]

\* C8: _make_literal_true returns Conflict exactly when a clause without the
\* literal is emptied by removing the complement, and otherwise the clauses
\* without the literal, in order, each with the complement removed.
AssignResult ==
  called = "_make_literal_true" => result[1] = AssignByRule(cnf, arg[1])

\* the literals applied in order, stopping at the first Conflict
RECURSIVE AssignManyShortCircuit(_, _)
AssignManyShortCircuit(f, ls) ==
  IF ls = <<>> THEN f
  ELSE LET g == _make_literal_true(f, Head(ls)) IN
       IF g = Conflict THEN Conflict ELSE AssignManyShortCircuit(g, Tail(ls))

\* C9: make_literals_true applies the literals in list order and returns
\* Conflict as soon as one application yields Conflict, at any position.
AssignManyShortCircuits ==
  called = "make_literals_true" => result[1] = AssignManyShortCircuit(cnf, arg)

\* C10: when up meets Conflict it returns Conflict together with the unit
\* literals recorded so far, the one that caused the Conflict included.
UpReportsAssignedOnConflict ==
  (called = "up" /\ result[1].formula = Conflict) =>
    result[1].assigned = result[1].valuation

\* C10 as amended: when up meets Conflict it stops at that literal and returns
\* Conflict together with an empty list; the recorded literals are not returned.
UpReturnsEmptyOnConflict ==
  (called = "up" /\ result[1].formula = Conflict) =>
    LET v == result[1].valuation IN
    /\ v # <<>>
    /\ make_literals_true(cnf, SubSeq(v, 1, Len(v) - 1)) \notin {Conflict, TypeError}
    /\ make_literals_true(cnf, v) = Conflict
    /\ result[1].assigned = <<>>

\* up met Conflict after recording a unit literal
UpReturnsEmptyOnConflictWitness ==
  /\ called = "up" /\ result[1].formula = Conflict
  /\ result[1].valuation # <<>>
  /\ result[1].assigned = <<>>

\* the unit clause that comes first in clause order, if there is one
HasUnit(f) == \E i \in DOMAIN f : Len(f[i]) = 1

FirstUnit(f) == f[CHOOSE i \in DOMAIN f : Len(f[i]) = 1 /\ \A j \in 1..(i - 1) : Len(f[j]) # 1]

\* C11: when up returns a formula, it has no clause of length 1, and every
\* returned literal was the sole literal of the first unit clause of the
\* formula current when it was recorded.
UpReachesFixpoint ==
  (called = "up" /\ result[1].formula # Conflict) =>
    /\ ~HasUnit(result[1].formula)
    /\ \A k \in DOMAIN result[1].assigned :
         LET current == make_literals_true(cnf, SubSeq(result[1].assigned, 1, k - 1))
         IN  /\ current \notin {Conflict, TypeError}
             /\ HasUnit(current)
             /\ FirstUnit(current) = <<result[1].assigned[k]>>

\* up recorded two literals, the first of them not from the first clause, and
\* returned a formula
UpReachesFixpointWitness ==
  /\ called = "up" /\ result[1].formula # Conflict
  /\ Len(result[1].assigned) >= 2
  /\ Len(cnf[1]) # 1

Occurs(l, f) == \E i \in DOMAIN f : In(l, f[i])

\* position of the first occurrence of l in the clauses of f read in order
FirstAt(l, f) == CHOOSE k \in DOMAIN Flatten(f) :
                   Flatten(f)[k] = l /\ \A j \in 1..(k - 1) : Flatten(f)[j] # l

\* C12: the list ple returns holds exactly the literals that occur in the
\* formula while their complement does not, each once, in first-seen order;
\* the formula it returns is the input without the clauses that contain one
\* of them, the other clauses unchanged.
PleIdentifiesPure ==
  called = "ple" =>
    LET pure == result[1][2] IN
    /\ {pure[i] : i \in DOMAIN pure} = {l \in Lits : Occurs(l, cnf) /\ ~Occurs(0 - l, cnf)}
    /\ \A i, j \in DOMAIN pure : i < j => FirstAt(pure[i], cnf) < FirstAt(pure[j], cnf)
    /\ result[1][1] = SelectSeq(cnf, LAMBDA clause : \A i \in DOMAIN pure : ~In(pure[i], clause))

\* ple found two pure literals, one of them repeated in the formula, and left
\* a clause over
PleIdentifiesPureWitness ==
  /\ called = "ple"
  /\ Len(result[1][2]) >= 2
  /\ \E i \in DOMAIN result[1][2] :
       Cardinality({k \in DOMAIN Flatten(cnf) : Flatten(cnf)[k] = result[1][2][i]}) >= 2
  /\ result[1][1] # <<>>

\* the literal made true for the call that frame i waits for
Explored(i) == stack[i + 1].valuation[Len(stack[i].valuation) + 1]

\* C13: at every branching step the positive literal of the branching variable
\* is explored first and the negative literal second, the second only after
\* the first did not yield Success.
PositiveBranchFirst ==
  /\ \A i \in 1..(Len(stack) - 1) :
       /\ stack[i].sign = 1 => Explored(i) > 0
       /\ stack[i].sign = -1 => Explored(i) < 0
  /\ (Searching /\ Top.pc = "loop" /\ Top.sign = -1) => ret = <<>>

\* C13 as amended: at every branching step the selected literal, the first
\* literal of the first clause whatever its sign, is made true first and its
\* complement second, the second only after the first call returned no
\* solution; a returned solution ends the step at once.
BranchOrder ==
  [][LET n == Len(stack) IN
     /\ (Searching /\ Top.pc = "test" /\ pc' = "search" /\ Len(stack') = n
           /\ stack'[n].pc = "loop")
          => (stack'[n].sign = 1 /\ stack'[n].literal = Top.formula[1][1])
     /\ (Searching /\ Len(stack') = n + 1)
          => /\ Top.pc = "loop"
             /\ stack'[n + 1].valuation = Top.valuation \o <<Top.sign * Top.literal>>
             /\ stack'[n + 1].formula = _make_literal_true(Top.formula, Top.sign * Top.literal)
             /\ stack'[n] = [Top EXCEPT !.pc = "wait"]
     /\ (Searching /\ Len(stack') = n /\ stack'[n].sign # Top.sign)
          => (Top.pc = "wait" /\ Top.sign = 1 /\ stack'[n].sign = -1 /\ ret = <<>>)
     /\ (Searching /\ Top.pc = "wait" /\ ret # <<>>)
          => (stack' = Pop /\ ret' = ret)
    ]_vars

\* the complement of a negative selected literal is being explored, after the
\* call for the selected literal returned no solution
BranchOrderWitness ==
  \E i \in 1..(Len(stack) - 1) :
    stack[i].literal < 0 /\ stack[i].sign = -1 /\ Explored(i) > 0

Branching(frame) == frame.pc \in {"loop", "wait"}

\* C14: when the call for the first sign returns no solution the search goes
\* on: the second sign is applied to the formula and the valuation the first
\* was applied to, which no call changes, and the branching step fails only
\* when both calls returned no solution.
BacktrackingRestores ==
  [][LET n == Len(stack) IN
     /\ \A i \in DOMAIN stack \cap DOMAIN stack' :
          Branching(stack[i])
            => /\ Branching(stack'[i])
               /\ stack'[i].formula = stack[i].formula
               /\ stack'[i].valuation = stack[i].valuation
               /\ stack'[i].literal = stack[i].literal
     /\ (Searching /\ Top.pc = "wait" /\ ret = <<>> /\ Top.sign = 1)
          => (pc' = "search" /\ stack' = SetTop([Top EXCEPT !.sign = -1, !.pc = "loop"]))
     /\ (Searching /\ Top.pc = "loop" /\ Top.sign = -1)
          => /\ Len(stack') = n + 1
             /\ stack'[n + 1].formula = _make_literal_true(Top.formula, 0 - Top.literal)
             /\ stack'[n + 1].valuation = Top.valuation \o <<0 - Top.literal>>
     /\ (Searching /\ Top.pc = "wait" /\ Len(stack') = n - 1 /\ ret' = <<>>)
          => (Top.sign = -1 /\ ret = <<>>)
    ]_vars

\* the call for the second sign runs on a formula it has simplified, after the
\* call for a positive selected literal returned no solution
BacktrackingRestoresWitness ==
  \E i \in 1..(Len(stack) - 1) :
    /\ stack[i].literal > 0 /\ stack[i].sign = -1
    /\ stack[i + 1].pc = "test"

Consistent(valuation) ==
  \A i, j \in DOMAIN valuation : valuation[i] # 0 - valuation[j]

Assigned(l, valuation) ==
  \E k \in DOMAIN valuation : Abs(valuation[k]) = Abs(l)

\* C15: on every path of the search at most n_props branching steps are
\* nested, and the variable of the literal of each branching step is not in
\* the valuation of that step, with either sign.
BoundedDepth ==
  /\ Cardinality({i \in DOMAIN stack : Branching(stack[i])}) <= n_props
  /\ \A i \in DOMAIN stack :
       Branching(stack[i]) => ~Assigned(stack[i].literal, stack[i].valuation)

\* C16: the valuation every call of the search gets, and the valuation every
\* call returns as a solution, has no variable with both signs.
ValuationConsistent ==
  /\ \A i \in DOMAIN stack : stack[i].pc = "ple" => Consistent(stack[i].valuation)
  /\ Consistent(ret)

\* C17: making the literal of a branching step true, with either sign, never
\* gives Conflict, so no call of the search, and no pure-literal elimination,
\* gets Conflict for its formula.
SearchNeverOnConflict ==
  /\ error # "TypeError"
  /\ \A i \in DOMAIN stack :
       /\ stack[i].pc = "ple" => stack[i].formula \notin {Conflict, TypeError}
       /\ Branching(stack[i])
            => /\ _make_literal_true(stack[i].formula, stack[i].literal) # Conflict
               /\ _make_literal_true(stack[i].formula, 0 - stack[i].literal) # Conflict

\* the call for the second sign of a branching step is about to eliminate
\* pure literals
SearchNeverOnConflictWitness ==
  /\ Len(stack) >= 2
  /\ Top.pc = "ple" /\ Top.formula # <<>>
  /\ stack[Len(stack) - 1].sign = -1

IsPrefix(s, t) == Len(s) <= Len(t) /\ SubSeq(t, 1, Len(s)) = s

\* C18: a solution a call returns begins with the valuation of every call
\* still waiting for it followed by the branching literal that call is trying,
\* and it is the list of the literals made true on the way to the empty
\* formula: made true in that order from the input formula they give the
\* empty formula, so it holds no literal of a branch that failed.
ValuationGrowsOnPath ==
  ret # <<>> =>
    /\ \A i \in DOMAIN stack :
         IsPrefix(stack[i].valuation \o <<stack[i].sign * stack[i].literal>>, ret)
    /\ make_literals_true(cnf, ret) = <<>>

\* a solution comes back through a branching step whose first call failed
ValuationGrowsOnPathWitness ==
  /\ ret # <<>> /\ pc = "search"
  /\ stack # <<>> /\ Top.pc = "wait" /\ Top.sign = -1

Disjoint(f, valuation) ==
  f = Conflict \/ \A i \in DOMAIN f : \A j \in DOMAIN f[i] : ~Assigned(f[i][j], valuation)

\* C19: when the search is called, after its pure-literal elimination and
\* after its unit propagation, no literal of the formula of the call has its
\* variable in the valuation of the call, with either sign.
FormulaValuationDisjoint ==
  \A i \in DOMAIN stack :
    /\ stack[i].pc \in {"ple", "test"} => Disjoint(stack[i].formula, stack[i].valuation)
    /\ stack[i].pc = "up"
         => Disjoint(stack[i].formula, stack[i].valuation \o stack[i].pure_valuation)

====
